---- MODULE Spec2Model ----
\* Model of the vSphere source adapter (pkg/vsphere/adapter.go): the resolution
\* of the begin of the event stream from a checkpoint, the poll/backoff loop,
\* the per-event send with partial batch failure, and the staged/saved
\* checkpoint in the KV store.
EXTENDS Integers, Sequences, FiniteSets, TLC

\* ---------------------------------------------------------------- bounds
\* number of events of the vCenter event stream
NumEvents == 2
\* number of times the adapter process is started again after it stopped
MaxRestarts == 1
\* number of sends/conversions that fail over the whole behaviour
MaxFaults == 1
\* largest configured CpConfig.MaxAge, in clock ticks
MaxMaxAge == 1
\* clock ticks per second (resolution of time.Time below one second)
TicksPerSecond == 2
\* number of consecutive empty polls followed
MaxAttempt == 3

\* ------------------------------------------------------- program constants
maxEventsBatch == 100
bOffFactor == 2
bOffMin == 1
bOffMax == 5

\* ---------------------------------------------------------------- state
VARIABLES
    pc,                     \* position of the adapter process
    retErr,                 \* error returned by run ("" while running / nil)
    cancelled,              \* ctx.Done() is closed
    tickerReady,            \* cpTicker.C holds a tick
    staged,                 \* KVStore in-memory value under checkpointKey
    durable,                \* KVStore persisted value under checkpointKey
    cursor,                 \* position of the history collector in the stream
    batch,                  \* events returned by the last ReadNextEvents
    plan,                   \* what converting and sending each event of the batch gives
    idx,                    \* sendEvents: events of the batch ranged over
    success,                \* sendEvents: success
    sendErr,                \* sendEvents: the error it returns ("nil" for none)
    sent,                   \* events handed to CEClient.Send in this sendEvents
    lastEvent,              \* readEvents: lastEvent (0 is nil)
    lastCheckpointEventKey, \* readEvents: lastCheckpointEventKey
    bOffAttempt,            \* backoff.Backoff attempt counter
    delay,                  \* last backoff delay slept, in seconds
    maxAge,                 \* CpConfig.MaxAge, in ticks
    vcTime,                 \* run: current vCenter time, in ticks
    cp,                     \* run: checkpoint read at startup
    begin,                  \* run: begin of the event stream
    restarts,               \* process starts after the first
    faults,                 \* failed sends/conversions so far
    returned,               \* history: events returned by ReadNextEvents
    acked,                  \* history: events ACK-ed by the sink
    ackedRun,               \* history: events ACK-ed since this process started
    convFailed,             \* history: events that failed to convert
    lastFlush,              \* history: what the last serviced tick did
    successSinceTick,       \* history: a batch with n > 0 since the last serviced tick
    stagedBefore,           \* history: staged when the last batch was read
    failure,                \* history: the last call of this process that failed ("" for none)
    savesRun,               \* history: checkpoints this process has saved
    keyBase                 \* Key of the first event of the stream

vars == <<pc, retErr, cancelled, tickerReady, staged, durable, cursor, batch, plan, idx,
          success, sendErr, sent, lastEvent, lastCheckpointEventKey, bOffAttempt,
          delay, maxAge, vcTime, cp, begin, restarts, faults, returned, acked,
          ackedRun, convFailed, lastFlush, successSinceTick, stagedBefore,
          failure, savesRun, keyBase>>

\* history: this process has saved a checkpoint
flushedRun == savesRun > 0

\* ---------------------------------------------------------------- helpers
Min2(a, b) == IF a < b THEN a ELSE b

RECURSIVE Pow(_, _)
Pow(b, e) == IF e = 0 THEN 1 ELSE b * Pow(b, e - 1)

\* Key of the i-th event of the stream (types.Event.Key, increasing).
EventKey(i) == keyBase + i - 1

\* CreatedTime of the i-th event of the stream, in ticks (non-decreasing).
EventTime(i) == TicksPerSecond + i

MaxTime == EventTime(NumEvents) + 1

\* time.Time.Unix(): whole seconds, rounded down.
Unix(t) == t \div TicksPerSecond

\* checkpoint{}: the zero value; a zero LastEventKeyTimestamp is time.Time{}.
ZeroCheckpoint == [LastEventKey |-> 0, LastEventKeyTimestamp |-> 0]

\* time.Time.IsZero()
IsZero(t) == t = 0

\* ------------------------------------------------------- pure functions
\* getBeginFromCheckpoint without the IsZero test: an empty checkpoint is
\* treated like a stored one.
getBeginNoZeroTest(t, c, age) ==
    LET cpTime == c.LastEventKeyTimestamp
        maxTime == t - age
    IN  IF Unix(maxTime) > Unix(cpTime) THEN maxTime ELSE cpTime

\* getBeginFromCheckpoint with >= in place of > in the comparison.
getBeginGeq(t, c, age) ==
    LET cpTime == c.LastEventKeyTimestamp
        maxTime == t - age
    IN  IF ~IsZero(cpTime)
        THEN IF Unix(maxTime) >= Unix(cpTime) THEN maxTime ELSE cpTime
        ELSE t

\* getBeginFromCheckpoint(ctx, vcTime, cp, maxAge): begin of the event stream.
getBeginFromCheckpoint(t, c, age) ==
    LET cpTime == c.LastEventKeyTimestamp
        maxTime == t - age
    IN  IF ~IsZero(cpTime)
        THEN IF Unix(maxTime) > Unix(cpTime) THEN maxTime ELSE cpTime
        ELSE t

\* newHistoryCollector(ctx, client, begin): the collector is positioned at the
\* first event created at or after begin.
newHistoryCollector(b) ==
    IF \E i \in 1..NumEvents : EventTime(i) >= b
    THEN CHOOSE i \in 1..NumEvents :
            /\ EventTime(i) >= b
            /\ \A j \in 1..NumEvents : EventTime(j) >= b => i <= j
    ELSE NumEvents + 1

\* backoff.Backoff.ForAttempt with Factor 2, Min 1s, Max 5s, no jitter.
ForAttempt(a) ==
    LET d == bOffMin * Pow(bOffFactor, a)
    IN  IF d < bOffMin THEN bOffMin ELSE IF d > bOffMax THEN bOffMax ELSE d

\* cloudevents.IsACK that takes every result for an ACK.
IsACKAlways(result) == TRUE

\* cloudevents.IsACK(result)
IsACK(result) == result = "ack"

\* the ticker branch skipping only while no event was sent yet.
skipOnlyNil(le, lck) == le = 0

\* skip := lastEvent == nil || lastCheckpointEventKey == lastEvent.GetEvent().Key
skipCheckpoint(le, lck) == le = 0 \/ lck = EventKey(le)

\* taking the last event of the batch whatever was sent.
lastOfBatch(events, n) == events[Len(events)]

\* events[n-1]: last successfully sent event from batch (sequences start at 1).
lastSuccessful(events, n) == events[n]

\* checkpoint{...} built from the last successfully sent event.
checkpointOf(le) ==
    [LastEventKey |-> EventKey(le), LastEventKeyTimestamp |-> EventTime(le)]

Running == {"run", "select", "sleep", "send", "post"}
InLoop == {"select", "sleep", "send", "post"}

\* ---------------------------------------------------------------- Init
\* State after NewAdapter: the store is initialised and holds no checkpoint,
\* CpConfig is read (replay disabled, or a window of MaxMaxAge), run has not
\* started.
InitCommon ==
    /\ retErr = ""
    /\ cancelled = FALSE
    /\ tickerReady = FALSE
    /\ staged = <<>>
    /\ durable = <<>>
    /\ cursor = 1
    /\ batch = <<>>
    /\ plan = <<>>
    /\ idx = 0
    /\ success = 0
    /\ sendErr = "nil"
    /\ sent = <<>>
    /\ lastEvent = 0
    /\ lastCheckpointEventKey = 0
    /\ bOffAttempt = 0
    /\ delay = 0
    /\ begin = 0
    /\ restarts = 0
    /\ faults = 0
    /\ returned = {}
    /\ acked = {}
    /\ ackedRun = {}
    /\ convFailed = {}
    /\ lastFlush = "none"
    /\ successSinceTick = FALSE
    /\ stagedBefore = <<>>
    /\ failure = ""
    /\ savesRun = 0

Init ==
    /\ InitCommon
    /\ pc = "run"
    /\ maxAge \in {0, MaxMaxAge}
    /\ keyBase \in {0, 1}
    /\ vcTime = 0
    /\ cp = ZeroCheckpoint

\* ---------------------------------------------------------------- run
\* KVStore.Get(ctx, checkpointKey, &cp): on an error (which is also what a
\* key that was never set gives) cp keeps its zero value.
getCheckpoint(getOk, st) == IF getOk /\ st # <<>> THEN st[1] ELSE ZeroCheckpoint

\* A failed call that is only logged: the loop goes on.
FailLogged(kind, err) ==
    /\ pc' = "select"
    /\ retErr' = ""
    /\ failure' = kind

\* return fmt.Errorf("<err>: %w", ...): the call failed and run returns.
Fail(kind, err) ==
    /\ pc' = "stopped"
    /\ retErr' = err
    /\ failure' = kind

\* vCenter times the clock can show: not before an event already returned.
VcTimes == {t \in EventTime(1)..MaxTime : \A i \in returned : EventTime(i) <= t}

\* run: read the checkpoint, get the vCenter time, resolve begin, create the
\* collector and enter readEvents (its locals, backoff and ticker are set up).
run ==
    /\ pc = "run"
    /\ \E getOk \in BOOLEAN, r \in {"ok", "timeErr", "collErr"}, t \in VcTimes :
         LET loaded == getCheckpoint(getOk, staged)
             gotIt == getOk /\ staged # <<>>
             b == getBeginFromCheckpoint(t, loaded, maxAge)
         IN  /\ cp' = loaded
             /\ IF r = "timeErr"
                THEN /\ Fail("time", "get current time from vCenter")
                     /\ UNCHANGED <<vcTime, begin, cursor>>
                ELSE /\ vcTime' = t
                     /\ begin' = b
                     /\ IF r = "collErr"
                        THEN /\ Fail("open", "create event collector")
                             /\ UNCHANGED cursor
                        ELSE /\ pc' = "select"
                             /\ retErr' = ""
                             /\ failure' = IF gotIt THEN "" ELSE "get"
                             /\ cursor' = newHistoryCollector(b)
    /\ UNCHANGED <<cancelled, tickerReady, staged, durable, batch, plan, idx,
                   success, sendErr, sent, lastEvent, lastCheckpointEventKey,
                   bOffAttempt, delay, maxAge, restarts, faults, returned, acked,
                   convFailed, ackedRun, lastFlush, successSinceTick, stagedBefore,
                   savesRun, keyBase>>

\* ---------------------------------------------------------------- readEvents
\* A call that waits (ReadNextEvents, KVStore.Get and Save, each with ctx):
\* until it returns the context may be cancelled and the ticker, whose
\* channel is empty by then, may fire.
whileWaiting ==
    /\ cancelled' \in {cancelled, TRUE}
    /\ tickerReady' \in {FALSE, TRUE}

\* case <-ctx.Done(): return ctx.Err()
ctxDone ==
    /\ pc = "select"
    /\ cancelled
    /\ pc' = "stopped"
    /\ retErr' = "context canceled"
    /\ UNCHANGED <<cancelled, tickerReady, staged, durable, cursor, batch, plan,
                   idx, success, sendErr, sent, lastEvent, lastCheckpointEventKey,
                   bOffAttempt, delay, maxAge, vcTime, cp, begin, restarts, faults,
                   returned, acked, convFailed, ackedRun, lastFlush,
                   successSinceTick, stagedBefore,
                   failure, savesRun, keyBase>>

\* case <-cpTicker.C: save the checkpoint unless there is nothing new.
checkpoint ==
    /\ pc = "select"
    /\ tickerReady
    /\ successSinceTick' = FALSE
    /\ IF skipCheckpoint(lastEvent, lastCheckpointEventKey)
       THEN /\ lastFlush' = "skipped"
            /\ tickerReady' = FALSE
            /\ UNCHANGED cancelled
            /\ UNCHANGED <<pc, retErr, durable, lastCheckpointEventKey, failure,
                           savesRun>>
       ELSE \E r \in {"ok", "getErr", "saveErr"} :
              /\ whileWaiting
              /\ lastFlush' = IF r = "ok" THEN "saved" ELSE r
              /\ IF r = "ok"
                 THEN /\ durable' = staged
                      /\ lastCheckpointEventKey' = EventKey(lastEvent)
                      /\ savesRun' = savesRun + 1
                      /\ UNCHANGED <<pc, retErr, failure>>
                 ELSE /\ IF r = "getErr"
                         THEN Fail("flushGet", "retrieve current checkpoint")
                         ELSE Fail("save", "save checkpoint")
                      /\ UNCHANGED <<durable, lastCheckpointEventKey, savesRun>>
    /\ UNCHANGED <<staged, cursor, batch, plan, idx, success, sendErr,
                   sent, lastEvent, bOffAttempt, delay, maxAge, vcTime, cp, begin,
                   restarts, faults, returned, acked, convFailed, ackedRun,
                   stagedBefore, keyBase>>

\* What the converter and the sink do with one event.
Outcomes == {"ack", "nack", "convErr"}

NumFaults(pl) == Cardinality({j \in 1..Len(pl) : pl[j] # "ack"})

\* the attempt counter after one more Duration(); from MaxAttempt on the delay
\* stays at Max and the count is held
nextAttempt(a) == IF a < MaxAttempt THEN a + 1 ELSE a

\* default: ReadNextEvents; an empty batch backs off, another goes to sendEvents.
poll ==
    /\ pc = "select"
    /\ ~cancelled
    /\ ~tickerReady
    /\ whileWaiting
    /\ \E r \in {"ok", "err"} :
         IF r = "err"
         THEN /\ Fail("read", "read events from vcenter")
              /\ UNCHANGED <<cursor, batch, plan, idx, success, sendErr, sent,
                             bOffAttempt, delay, returned, stagedBefore, faults>>
         ELSE \E k \in 0..Min2(maxEventsBatch, NumEvents - cursor + 1) :
                /\ batch' = [j \in 1..k |-> cursor + j - 1]
                /\ cursor' = cursor + k
                /\ returned' = returned \cup {cursor + j - 1 : j \in 1..k}
                /\ UNCHANGED <<retErr, failure>>
                /\ IF k = 0
                   THEN /\ delay' = ForAttempt(bOffAttempt)
                        /\ bOffAttempt' = nextAttempt(bOffAttempt)
                        /\ pc' = "sleep"
                        /\ plan' = <<>>
                        /\ UNCHANGED <<idx, success, sendErr, sent, stagedBefore,
                                       faults>>
                   ELSE /\ pc' = "send"
                        /\ idx' = 0
                        /\ success' = 0
                        /\ sendErr' = "nil"
                        /\ sent' = <<>>
                        /\ stagedBefore' = staged
                        /\ \E pl \in [1..k -> Outcomes] :
                             /\ faults + NumFaults(pl) <= MaxFaults
                             /\ plan' = pl
                             /\ faults' = faults + NumFaults(pl)
                        /\ UNCHANGED <<bOffAttempt, delay>>
    /\ UNCHANGED <<staged, durable, lastEvent,
                   lastCheckpointEventKey, maxAge, vcTime, cp, begin, restarts,
                   acked, convFailed, ackedRun, lastFlush, successSinceTick,
                   savesRun, keyBase>>

\* time.Sleep(delay) returns; continue
wake ==
    /\ pc = "sleep"
    /\ pc' = "select"
    /\ UNCHANGED <<retErr, cancelled, tickerReady, staged, durable, cursor, batch,
                   plan, idx, success, sendErr, sent, lastEvent,
                   lastCheckpointEventKey, bOffAttempt, delay, maxAge, vcTime, cp,
                   begin, restarts, faults, returned, acked, convFailed, ackedRun,
                   lastFlush, successSinceTick, stagedBefore,
                   failure, savesRun, keyBase>>

\* sendEvents going on to the next event after a send that was not ACK-ed.
sendEventsNoStop ==
    /\ pc = "send"
    /\ LET be == batch[idx + 1]
           last == idx + 1 = Len(batch)
           result == plan[idx + 1]
       IN  IF result = "convErr"
           THEN /\ sendErr' = "set data on event"
                /\ pc' = "post"
                /\ convFailed' = convFailed \cup {be}
                /\ UNCHANGED <<idx, success, sent, acked, ackedRun>>
           ELSE /\ sent' = Append(sent, be)
                /\ idx' = idx + 1
                /\ pc' = IF last THEN "post" ELSE "send"
                /\ IF ~IsACK(result)
                   THEN /\ sendErr' = result
                        /\ UNCHANGED <<success, acked, convFailed, ackedRun>>
                   ELSE /\ success' = success + 1
                        /\ acked' = acked \cup {be}
                        /\ ackedRun' = ackedRun \cup {be}
                        /\ UNCHANGED <<sendErr, convFailed>>
    /\ UNCHANGED <<retErr, cancelled, tickerReady, staged, durable, cursor, batch,
                   plan, lastEvent, lastCheckpointEventKey, bOffAttempt, delay,
                   maxAge, vcTime, cp, begin, restarts, faults, returned, lastFlush,
                   successSinceTick, stagedBefore,
                   failure, savesRun, keyBase>>

\* sendEvents passing over an event that does not convert, without an error.
sendEventsSkipConv ==
    /\ pc = "send"
    /\ LET be == batch[idx + 1]
           last == idx + 1 = Len(batch)
           result == plan[idx + 1]
       IN  IF result = "convErr"
           THEN /\ idx' = idx + 1
                /\ pc' = IF last THEN "post" ELSE "send"
                /\ convFailed' = convFailed \cup {be}
                /\ UNCHANGED <<sendErr, success, sent, acked, ackedRun>>
           ELSE /\ sent' = Append(sent, be)
                /\ IF ~IsACK(result)
                   THEN /\ sendErr' = result
                        /\ pc' = "post"
                        /\ UNCHANGED <<idx, success, acked, convFailed, ackedRun>>
                   ELSE /\ success' = success + 1
                        /\ idx' = idx + 1
                        /\ acked' = IF result = "ack" THEN acked \cup {be} ELSE acked
                        /\ ackedRun' = IF result = "ack" THEN ackedRun \cup {be}
                                                          ELSE ackedRun
                        /\ pc' = IF last THEN "post" ELSE "send"
                        /\ UNCHANGED <<sendErr, convFailed>>
    /\ UNCHANGED <<retErr, cancelled, tickerReady, staged, durable, cursor, batch,
                   plan, lastEvent, lastCheckpointEventKey, bOffAttempt, delay,
                   maxAge, vcTime, cp, begin, restarts, faults, returned, lastFlush,
                   successSinceTick, stagedBefore,
                   failure, savesRun, keyBase>>

\* sendEvents: one iteration of its loop over the batch (convert, send, count),
\* with the return on the first error or after the last event.
sendEvents ==
    /\ pc = "send"
    /\ LET be == batch[idx + 1]
           last == idx + 1 = Len(batch)
           result == plan[idx + 1]
       IN  IF result = "convErr"
           THEN /\ sendErr' = "set data on event"
                /\ pc' = "post"
                /\ convFailed' = convFailed \cup {be}
                /\ UNCHANGED <<idx, success, sent, acked, ackedRun>>
           ELSE /\ sent' = Append(sent, be)
                /\ IF ~IsACK(result)
                   THEN /\ sendErr' = result
                        /\ pc' = "post"
                        /\ UNCHANGED <<idx, success, acked, convFailed, ackedRun>>
                   ELSE /\ success' = success + 1
                        /\ idx' = idx + 1
                        /\ acked' = IF result = "ack" THEN acked \cup {be} ELSE acked
                        /\ ackedRun' = IF result = "ack" THEN ackedRun \cup {be}
                                                          ELSE ackedRun
                        /\ pc' = IF last THEN "post" ELSE "send"
                        /\ UNCHANGED <<sendErr, convFailed>>
    /\ UNCHANGED <<retErr, cancelled, tickerReady, staged, durable, cursor, batch,
                   plan, lastEvent, lastCheckpointEventKey, bOffAttempt, delay,
                   maxAge, vcTime, cp, begin, restarts, faults, returned, lastFlush,
                   successSinceTick, stagedBefore,
                   failure, savesRun, keyBase>>

\* readEvents returning the error of sendEvents when nothing was sent.
postDispatchFatal ==
    /\ pc = "post"
    /\ IF sendErr # "nil" /\ success = 0
       THEN /\ Fail("send", sendErr)
            /\ UNCHANGED <<staged, lastEvent, bOffAttempt, successSinceTick>>
       ELSE IF success = 0 /\ sendErr = "nil"
       THEN /\ pc' = "panic"
            /\ retErr' = "we should never get here"
            /\ UNCHANGED <<staged, lastEvent, bOffAttempt, successSinceTick,
                           failure>>
       ELSE /\ lastEvent' = lastSuccessful(batch, success)
            /\ successSinceTick' = TRUE
            /\ \E setOk \in BOOLEAN :
                 IF setOk
                 THEN /\ staged' = <<checkpointOf(lastEvent')>>
                      /\ bOffAttempt' = 0
                      /\ pc' = "select"
                      /\ UNCHANGED <<retErr, failure>>
                 ELSE /\ Fail("set", "set checkpoint")
                      /\ UNCHANGED <<staged, bOffAttempt>>
    /\ UNCHANGED <<cancelled, tickerReady, durable, cursor, batch, plan, idx,
                   success, sendErr, sent, lastCheckpointEventKey, delay, maxAge,
                   vcTime, cp, begin, restarts, faults, returned, acked, convFailed,
                   ackedRun, lastFlush, stagedBefore,
                   savesRun, keyBase>>

\* readEvents after sendEvents returned (n, err): skip the checkpoint when
\* nothing was sent, else stage the checkpoint of the last sent event and
\* reset the backoff.
postDispatch ==
    /\ pc = "post"
    /\ IF sendErr # "nil" /\ success = 0
       THEN /\ pc' = "select"
            /\ UNCHANGED <<retErr, staged, lastEvent, bOffAttempt,
                           successSinceTick, failure>>
       ELSE IF success = 0 /\ sendErr = "nil"
       THEN /\ pc' = "panic"
            /\ retErr' = "we should never get here"
            /\ UNCHANGED <<staged, lastEvent, bOffAttempt, successSinceTick,
                           failure>>
       ELSE /\ lastEvent' = lastSuccessful(batch, success)
            /\ successSinceTick' = TRUE
            /\ \E setOk \in BOOLEAN :
                 IF setOk
                 THEN /\ staged' = <<checkpointOf(lastEvent')>>
                      /\ bOffAttempt' = 0
                      /\ pc' = "select"
                      /\ UNCHANGED <<retErr, failure>>
                 ELSE /\ Fail("set", "set checkpoint")
                      /\ UNCHANGED <<staged, bOffAttempt>>
    /\ UNCHANGED <<cancelled, tickerReady, durable, cursor, batch, plan, idx,
                   success, sendErr, sent, lastCheckpointEventKey, delay, maxAge,
                   vcTime, cp, begin, restarts, faults, returned, acked, convFailed,
                   ackedRun, lastFlush, stagedBefore,
                   savesRun, keyBase>>

\* ---------------------------------------------------------------- environment
\* the checkpoint ticker fires; its channel holds one tick
tick ==
    /\ pc \in InLoop
    /\ ~tickerReady
    /\ tickerReady' = TRUE
    /\ UNCHANGED <<pc, retErr, cancelled, staged, durable, cursor, batch, plan, idx,
                   success, sendErr, sent, lastEvent, lastCheckpointEventKey,
                   bOffAttempt, delay, maxAge, vcTime, cp, begin, restarts, faults,
                   returned, acked, convFailed, ackedRun, lastFlush,
                   successSinceTick, stagedBefore,
                   failure, savesRun, keyBase>>

\* the context of Start is cancelled
cancel ==
    /\ pc \in Running
    /\ ~cancelled
    /\ cancelled' = TRUE
    /\ UNCHANGED <<pc, retErr, tickerReady, staged, durable, cursor, batch, plan,
                   idx, success, sendErr, sent, lastEvent, lastCheckpointEventKey,
                   bOffAttempt, delay, maxAge, vcTime, cp, begin, restarts, faults,
                   returned, acked, convFailed, ackedRun, lastFlush,
                   successSinceTick, stagedBefore,
                   failure, savesRun, keyBase>>

\* a new process: NewAdapter initialises the store from what was saved, and
\* run starts over with fresh locals
restart ==
    /\ pc \in {"stopped", "panic"}
    /\ restarts < MaxRestarts
    /\ restarts' = restarts + 1
    /\ pc' = "run"
    /\ retErr' = ""
    /\ cancelled' = FALSE
    /\ tickerReady' = FALSE
    /\ staged' = durable
    /\ batch' = <<>>
    /\ plan' = <<>>
    /\ idx' = 0
    /\ success' = 0
    /\ sendErr' = "nil"
    /\ sent' = <<>>
    /\ lastEvent' = 0
    /\ lastCheckpointEventKey' = 0
    /\ bOffAttempt' = 0
    /\ delay' = 0
    /\ ackedRun' = {}
    /\ lastFlush' = "none"
    /\ successSinceTick' = FALSE
    /\ stagedBefore' = durable
    /\ failure' = ""
    /\ savesRun' = 0
    /\ UNCHANGED <<durable, cursor, maxAge, vcTime, cp, begin, faults, returned,
                   acked, convFailed, keyBase>>

Next ==
    \/ run
    \/ ctxDone
    \/ checkpoint
    \/ poll
    \/ wake
    \/ sendEvents
    \/ postDispatch
    \/ tick
    \/ cancel
    \/ restart

Spec == Init /\ [][Next]_vars

\* ------------------------------------------------ getBeginFromCheckpoint alone
\* The inputs of getBeginFromCheckpoint drawn from three seconds of clock
\* ticks, a zero or stored checkpoint timestamp, and windows up to and beyond
\* one second.
ResolveTimes == 1..(3 * TicksPerSecond)
ResolveAges == 0..(TicksPerSecond + MaxMaxAge)

ResolveInit ==
    /\ InitCommon
    /\ pc = "resolve"
    /\ keyBase = 0
    /\ vcTime \in ResolveTimes
    /\ maxAge \in ResolveAges
    /\ cp \in {[LastEventKey |-> 0, LastEventKeyTimestamp |-> ts] :
                  ts \in {0} \cup ResolveTimes}

resolve ==
    /\ pc = "resolve"
    /\ begin' = getBeginFromCheckpoint(vcTime, cp, maxAge)
    /\ pc' = "resolved"
    /\ UNCHANGED <<retErr, cancelled, tickerReady, staged, durable, cursor, batch,
                   plan, idx, success, sendErr, sent, lastEvent,
                   lastCheckpointEventKey, bOffAttempt, delay, maxAge, vcTime, cp,
                   restarts, faults, returned, acked, convFailed, ackedRun,
                   lastFlush, successSinceTick, stagedBefore,
                   failure, savesRun, keyBase>>

ResolveNext == resolve

ResolveSpec == ResolveInit /\ [][ResolveNext]_vars

\* ================================================================ claims
\* the adapter is between two batches: the last batch was sent and dealt with
AfterBatch == batch # <<>> /\ pc \notin {"send", "post"}

\* C1: the staged checkpoint never advances past an event that failed delivery:
\* no event returned by ReadNextEvents and never ACK-ed by the sink has a key
\* lower than the staged checkpoint's LastEventKey.
C1_NeverPastFailedEvent ==
    staged # <<>> =>
        \A i \in returned \ acked : ~(EventKey(i) < staged[1].LastEventKey)

\* C2: whenever readEvents stages a checkpoint (KVStore.Set), its LastEventKey
\* and LastEventKeyTimestamp are those of an event the sink ACK-ed before, in
\* this run of the process.
C2_StagedAfterAck ==
    [][(pc = "post" /\ pc' = "select" /\ success > 0) =>
          \E i \in ackedRun : staged' = <<checkpointOf(i)>>]_vars

\* C2 witness: a checkpoint was just staged for the last ACK-ed event of a batch.
C2_Witness ==
    /\ pc = "select"
    /\ batch # <<>>
    /\ success > 0
    /\ staged = <<checkpointOf(batch[success])>>
    /\ staged # stagedBefore
    /\ batch[success] \in ackedRun

\* C4 (as stated): after a batch with successCount 0 the staged checkpoint is
\* what it was before the batch; after a batch with successCount m > 0 its
\* LastEventKey is the key of the m-th event of the batch.
C4_StagingAsStated ==
    AfterBatch =>
        /\ success = 0 => staged = stagedBefore
        /\ success > 0 =>
              /\ staged # <<>>
              /\ staged[1].LastEventKey = EventKey(batch[success])

\* C4 (amended): as stated, unless KVStore.Set fails; then the staged
\* checkpoint is what it was before the batch and run has returned the error.
C4_Staging ==
    AfterBatch =>
        /\ success = 0 => staged = stagedBefore
        /\ (success > 0 /\ retErr # "set checkpoint") =>
              /\ staged # <<>>
              /\ staged[1].LastEventKey = EventKey(batch[success])
        /\ (success > 0 /\ retErr = "set checkpoint") =>
              /\ staged = stagedBefore
              /\ pc = "stopped"

\* C4 witness: a batch failed at its second event and the checkpoint of its
\* first event is staged in place of the one before.
C4_Witness ==
    /\ AfterBatch
    /\ success > 0
    /\ success < Len(batch)
    /\ sendErr # "nil"
    /\ staged # stagedBefore
    /\ staged[1].LastEventKey = EventKey(batch[success])

\* first event of the batch that fails to convert or to send (0 if none)
FirstFailure ==
    IF \A j \in 1..Len(plan) : plan[j] = "ack" THEN 0
    ELSE CHOOSE k \in 1..Len(plan) :
            /\ plan[k] # "ack"
            /\ \A j \in 1..(k - 1) : plan[j] = "ack"

\* C5: when sendEvents has returned for a batch whose first conversion or send
\* failure is at the k-th event, the events handed to the sink are events
\* 1..k-1 and, for a send failure, the k-th, once each and in order; it returned
\* k-1 and an error. It returned the length of the batch and no error only if
\* every event was ACK-ed.
C5_Dispatch ==
    pc = "post" =>
        LET k == FirstFailure
        IN  /\ k > 0 =>
                 /\ success = k - 1
                 /\ sendErr # "nil"
                 /\ sent = SubSeq(batch, 1, IF plan[k] = "nack" THEN k ELSE k - 1)
            /\ k = 0 =>
                 /\ success = Len(batch)
                 /\ sendErr = "nil"
                 /\ sent = batch
            /\ (success = Len(batch) /\ sendErr = "nil") =>
                 \A j \in 1..Len(batch) : plan[j] = "ack" /\ batch[j] \in ackedRun

\* C5 witness: sendEvents returned after the sink refused the second event of
\* a batch.
C5_Witness ==
    /\ pc = "post"
    /\ Len(batch) >= 2
    /\ plan[2] = "nack"
    /\ success = 1
    /\ sent = SubSeq(batch, 1, 2)

\* The process runs on while it can take a step, and a stopped process is
\* started again while restarts are left; the ticker, the cancellation and the
\* failures of the sink, the store and vCenter are under no obligation. The
\* ticker fires once per period, far apart compared with an iteration of the
\* loop, so the loop gets to poll again and again (strong fairness of poll).
FairSpec ==
    /\ Spec
    /\ WF_vars(run)
    /\ WF_vars(ctxDone)
    /\ WF_vars(checkpoint)
    /\ SF_vars(poll)
    /\ WF_vars(wake)
    /\ WF_vars(sendEvents)
    /\ WF_vars(postDispatch)
    /\ WF_vars(restart)

\* the process has stopped and is not started again
FinalStop == pc \in {"stopped", "panic"} /\ restarts = MaxRestarts

\* the last start found a checkpoint older than the replay window and began
\* the stream after event i
OutsideWindow(i) ==
    /\ restarts > 0
    /\ pc \in InLoop
    /\ ~IsZero(cp.LastEventKeyTimestamp)
    /\ begin # cp.LastEventKeyTimestamp
    /\ begin > EventTime(i)

\* C3: at-least-once delivery: every event ReadNextEvents returned is
\* eventually ACK-ed by the sink, unless the process stops for good, the
\* event fell out of the replay window or the event cannot be converted (the
\* sink refuses at most MaxFaults sends, so it ACKs an event that is sent again).
C3_AtLeastOnce ==
    \A i \in 1..NumEvents :
        (i \in returned) ~>
            (i \in acked \/ i \in convFailed \/ FinalStop \/ OutsideWindow(i))

\* C6: for a stored checkpoint with LastEventKeyTimestamp < vcTime - maxAge,
\* compared at the full resolution of the timestamps, getBeginFromCheckpoint
\* returns vcTime - maxAge.
C6_ClampToWindow ==
    (pc = "resolved"
        /\ ~IsZero(cp.LastEventKeyTimestamp)
        /\ cp.LastEventKeyTimestamp < vcTime - maxAge)
    => begin = vcTime - maxAge

\* C7: with maxAge = 0 getBeginFromCheckpoint returns vcTime for every stored
\* checkpoint.
C7_ZeroMaxAgeStartsNow ==
    (pc = "resolved" /\ maxAge = 0 /\ ~IsZero(cp.LastEventKeyTimestamp))
    => begin = vcTime

\* C8: for a stored checkpoint with LastEventKeyTimestamp >= vcTime - maxAge,
\* getBeginFromCheckpoint returns the checkpoint's LastEventKeyTimestamp.
C8_ResumeExactly ==
    (pc = "resolved"
        /\ ~IsZero(cp.LastEventKeyTimestamp)
        /\ cp.LastEventKeyTimestamp >= vcTime - maxAge)
    => begin = cp.LastEventKeyTimestamp

\* C8 witness: a checkpoint inside a non-zero window, later than the floor of
\* the window and in the same second, is resumed from exactly.
C8_Witness ==
    /\ pc = "resolved"
    /\ maxAge > 0
    /\ cp.LastEventKeyTimestamp > vcTime - maxAge
    /\ Unix(cp.LastEventKeyTimestamp) = Unix(vcTime - maxAge)
    /\ cp.LastEventKeyTimestamp < vcTime
    /\ begin = cp.LastEventKeyTimestamp

\* run has resolved begin for the collector of this process
BeginResolved ==
    \/ pc \in InLoop
    \/ pc = "panic"
    \/ pc = "stopped" /\ retErr # "get current time from vCenter"

\* C9: with an empty checkpoint (zero LastEventKeyTimestamp, also what run has
\* when the Get at startup fails) begin is the current vCenter time, whatever
\* maxAge is.
C9_EmptyCheckpointStartsNow ==
    (BeginResolved /\ IsZero(cp.LastEventKeyTimestamp)) => begin = vcTime

\* C9 witness: a restarted process whose Get failed although a checkpoint is
\* stored, with a non-zero window, begins at the vCenter time.
C9_Witness ==
    /\ pc = "select"
    /\ restarts > 0
    /\ lastEvent = 0
    /\ staged # <<>>
    /\ cp = ZeroCheckpoint
    /\ maxAge > 0
    /\ begin = vcTime

\* C10: a tick serviced after another serviced tick with no batch with n > 0
\* in between, or before any event was sent, calls neither Get nor Save: the
\* saved checkpoint is not written again.
C10_FlushElision ==
    [][(/\ pc = "select"
        /\ tickerReady
        /\ ~tickerReady'
        /\ \/ lastFlush # "none" /\ ~successSinceTick
           \/ lastEvent = 0)
       => (lastFlush' = "skipped" /\ durable' = durable)]_vars

\* C10 witness: the checkpoint of the second event was saved by one tick and
\* the next tick, with no batch in between, was skipped.
C10_Witness ==
    /\ pc = "select"
    /\ lastFlush = "skipped"
    /\ ~successSinceTick
    /\ lastEvent # 0
    /\ lastCheckpointEventKey # 0
    /\ lastCheckpointEventKey = EventKey(lastEvent)
    /\ durable = staged
    /\ durable = <<checkpointOf(lastEvent)>>

\* ---------------------------------------------------------------- flushing
\* The staged checkpoint was written by this process and is not what this
\* process last saved (it has saved nothing, or something else).
StagedAdvanced == lastEvent # 0 /\ (~flushedRun \/ staged # durable)

\* the step that services a tick of cpTicker
ServicesTick == pc = "select" /\ tickerReady /\ ~tickerReady'

\* C11: a serviced tick, while the staged checkpoint has advanced past what
\* this run last saved (nothing saved yet included, whatever the event key),
\* saves the staged checkpoint, unless the store reports an error.
C11_FlushPersistsAdvance ==
    [][(ServicesTick /\ StagedAdvanced)
         => \/ lastFlush' = "saved" /\ durable' = staged
            \/ lastFlush' \in {"getErr", "saveErr"}]_vars

\* ---------------------------------------------------------------- backoff
\* the step in which ReadNextEvents returns no event and the loop backs off
EmptyPoll == pc = "select" /\ pc' = "sleep"

\* C12: counting the empty polls from the last reset, the n-th one (from 0)
\* waits min(Max, Min * Factor^n) seconds, that is 1, 2, 4, 5, 5, ...; and the
\* empty poll that follows a non-empty poll, whatever was delivered of it,
\* waits Min (1 s) again.
C12_BackoffSequence ==
    [][EmptyPoll
         => /\ delay' = Min2(bOffMax, bOffMin * Pow(bOffFactor, bOffAttempt))
            /\ batch # <<>> => delay' = bOffMin]_vars

\* ---------------------------------------------------------------- cancellation
\* C13: once the context is cancelled the loop makes no further attempt to
\* save the checkpoint (KVStore.Save), not even when the ticker is ready at
\* the same iteration boundary.
C13_NoSaveAfterCancel ==
    [][(cancelled /\ ServicesTick) => lastFlush' \notin {"saved", "saveErr"}]_vars

\* the loop is at its select (an iteration boundary) with the context cancelled
CancelledAtBoundary == pc = "select" /\ cancelled

\* C14: cancelled at an iteration boundary, the loop starts no other poll,
\* and when run returns it returns the cancellation error (ctx.Err()), not
\* another one.
C14_CancelStopsRun ==
    [][CancelledAtBoundary
         => /\ cursor' = cursor /\ pc' \in {"select", "stopped"}
            /\ pc' = "stopped" => retErr' = "context canceled"]_vars

\* ---------------------------------------------------------------- failures
\* the calls whose failure run does not survive, and the error run returns
FatalKinds == {"time", "open", "read", "set", "save"}

ErrOf(kind) ==
    CASE kind = "time" -> "get current time from vCenter"
      [] kind = "open" -> "create event collector"
      [] kind = "read" -> "read events from vcenter"
      [] kind = "set" -> "set checkpoint"
      [] kind = "save" -> "save checkpoint"
      [] kind = "flushGet" -> "retrieve current checkpoint"
      [] OTHER -> ""

\* C15: a failure to get the vCenter time, to open the event stream, to read
\* a batch, to stage a checkpoint or to save one ends the loop and run with
\* that error; the failed call is not retried, and the stopped run sends no
\* event and stages no checkpoint any more.
C15_FailuresAreFatal ==
    /\ [](failure \in FatalKinds => (pc = "stopped" /\ retErr = ErrOf(failure)))
    /\ [][(pc = "stopped" /\ restarts' = restarts)
            => (sent' = sent /\ acked' = acked /\ staged' = staged
                /\ cursor' = cursor /\ pc' = "stopped")]_vars

C15_Witness ==
    /\ pc = "stopped"
    /\ failure = "save"
    /\ retErr = "save checkpoint"
    /\ staged # <<>>
    /\ durable = <<>>

\* the step of run in which Get fails for a store that holds a checkpoint
\* (cp is left zero) and run does not stay at its start
StartupGetFails == pc = "run" /\ pc' # "run" /\ staged # <<>> /\ cp' = ZeroCheckpoint

\* C16: a failed Get of the checkpoint ends the run with an error wherever it
\* happens: the Get at startup as well as the Get of a flush; after a failed
\* Get the run does not go on to open the event stream or to poll.
C16_GetFailureIsFatal ==
    /\ [](failure = "flushGet"
            => (pc = "stopped" /\ retErr = "retrieve current checkpoint"))
    /\ [][StartupGetFails
            => (pc' = "stopped" /\ UNCHANGED <<vcTime, begin, cursor>>)]_vars

\* ---------------------------------------------------------------- delivery failures
\* the step in which readEvents takes up the (n, err) of sendEvents, err
\* being a send or a conversion error
AfterFailedDelivery == pc = "post" /\ pc' # "post" /\ sendErr # "nil"

\* C17 as stated: a delivery failure never ends the run: after a batch with
\* a failure the loop goes to its next iteration; with nothing delivered it
\* does so without a backoff wait; and a backoff wait only ever follows a
\* poll that returned an empty batch.
C17_DeliveryFailureAsStated ==
    [][/\ AfterFailedDelivery => (pc' = "select" /\ retErr' = "")
       /\ (pc' = "sleep" /\ pc # "sleep") => (pc = "select" /\ batch' = <<>>)]_vars

\* C17, amended: as stated, except that after a failure with n > 0 delivered
\* events the staging of their checkpoint can fail, which ends the run with
\* the staging error.
C17_DeliveryFailure ==
    [][/\ AfterFailedDelivery
            => \/ pc' = "select" /\ retErr' = ""
               \/ /\ success > 0
                  /\ staged' = staged
                  /\ failure' = "set"
                  /\ pc' = "stopped"
                  /\ retErr' = "set checkpoint"
       /\ (AfterFailedDelivery /\ success = 0)
            => (pc' = "select" /\ UNCHANGED <<staged, lastEvent, bOffAttempt, delay>>)
       /\ (pc' = "sleep" /\ pc # "sleep") => (pc = "select" /\ batch' = <<>>)]_vars

C17_Witness ==
    /\ pc = "select"
    /\ batch # <<>>
    /\ sendErr = "nack"
    /\ success = 0
    /\ staged = stagedBefore
    /\ retErr = ""

\* C18: the backoff wait observes cancellation: cancelled while waiting, the
\* loop leaves the wait by stopping, not by the wait running to its end.
C18_BackoffObservesCancel ==
    [][(pc = "sleep" /\ cancelled) => pc' \in {"sleep", "stopped"}]_vars

\* ---------------------------------------------------------------- no starvation
\* So far in this process every poll returned events and all of them were
\* delivered (no backoff wait was ever taken, no send or conversion failed).
BatchesKeepArriving == delay = 0 /\ bOffAttempt = 0 /\ faults = 0

\* C19: while batches keep arriving, a tick that has fired is serviced
\* before the loop starts another poll, and servicing it saves the advanced
\* staged checkpoint (unless the store reports an error).
C19_FlushNotStarved ==
    [][(pc = "select" /\ tickerReady /\ ~cancelled /\ BatchesKeepArriving)
         => /\ cursor' = cursor
            /\ pc' \in {"select", "stopped"}
            /\ (ServicesTick /\ StagedAdvanced)
                 => \/ lastFlush' = "saved" /\ durable' = staged
                    \/ lastFlush' \in {"getErr", "saveErr"}]_vars

\* ---------------------------------------------------------------- checkpoint order
\* LastEventKey of a store value; below every event key when there is none
KeyOf(st) == IF st = <<>> THEN -1 ELSE st[1].LastEventKey

\* C20 as stated: within a run the saved checkpoint is always a value staged
\* earlier in that run, so its key does not exceed the staged key and it is
\* that of an event ACK-ed in the run; the staged and the saved key never
\* decrease over the run; and the loop's lastCheckpointEventKey is the saved
\* key after every flush.
C20_CheckpointOrderAsStated ==
    /\ [](durable # <<>>
            => /\ \E i \in ackedRun : durable = <<checkpointOf(i)>>
               /\ KeyOf(durable) <= KeyOf(staged))
    /\ [][restarts' = restarts
            => /\ KeyOf(staged') >= KeyOf(staged)
               /\ KeyOf(durable') >= KeyOf(durable)
               /\ durable' # durable
                    => (durable' = staged
                        /\ lastCheckpointEventKey' = KeyOf(durable'))]_vars

\* C20, amended: until its first flush a run holds the checkpoint saved by
\* an earlier run, which it did not stage. The saved checkpoint only changes
\* by a flush, to the value staged then. From the first flush of the run on
\* it is the checkpoint of an event ACK-ed in this run, its key does not
\* exceed the staged key and is the loop's lastCheckpointEventKey; the keys
\* the run stages and the keys it saves never decrease.
C20_CheckpointOrder ==
    /\ [](flushedRun
            => /\ \E i \in ackedRun : durable = <<checkpointOf(i)>>
               /\ KeyOf(durable) <= KeyOf(staged)
               /\ lastCheckpointEventKey = KeyOf(durable))
    /\ [](durable # <<>> => \E i \in acked : durable = <<checkpointOf(i)>>)
    /\ [][restarts' = restarts
            => /\ lastEvent # 0 => KeyOf(staged') >= KeyOf(staged)
               /\ flushedRun => KeyOf(durable') >= KeyOf(durable)
               /\ durable' # durable
                    => (pc = "select" /\ tickerReady
                        /\ durable' = staged
                        /\ savesRun' = savesRun + 1
                        /\ lastCheckpointEventKey' = KeyOf(durable'))]_vars

\* two saves in one run: the checkpoint of the first event, then that of the
\* second
C20_Witness ==
    /\ savesRun = 2
    /\ lastFlush = "saved"
    /\ durable = <<checkpointOf(2)>>
    /\ staged = durable
    /\ lastCheckpointEventKey = EventKey(2)

\* ---------------------------------------------------------------- success count
\* sendEvents is at work on a batch, or has returned (n, err) for it
Dispatching == pc \in {"send", "post"}

\* C21: for every non-empty batch and every pattern of ACKs, NACKs and
\* conversion errors, sendEvents returns an error or a success count of at
\* least 1, and the count is always within 0..len(batch); so the panic "we
\* should never get here" is not reached, and events[n-1], of which the
\* checkpoint is built, is an event of the batch.
C21_SuccessCountBounds ==
    /\ pc # "panic"
    /\ Dispatching => (batch # <<>> /\ 0 <= success /\ success <= Len(batch))
    /\ pc = "post" => (sendErr # "nil" \/ success >= 1)
    /\ (pc = "post" /\ ~(sendErr # "nil" /\ success = 0))
         => (success \in DOMAIN batch /\ lastSuccessful(batch, success) \in returned)
    /\ lastEvent # 0 => lastEvent \in returned

C21_Witness ==
    /\ pc = "post"
    /\ Len(batch) = 2
    /\ success = 1
    /\ sendErr = "nack"

====
